---- MODULE Spec2Model ----
(***************************************************************************)
(* Model of acl::connect_pool (lib_acl_cpp/src/connpool/connect_pool.cpp). *)
(* One pool object, used by several threads.  Every method is translated   *)
(* from its body; a method is one atomic step for the part it executes     *)
(* while holding lock_, and a separate step wherever the code reads the    *)
(* clock before taking the lock or blocks (open()) while holding it.       *)
(*                                                                         *)
(* SpecLock follows the calls of lock_.lock() and lock_.unlock() alone,    *)
(* operation by operation, on every return path of every method.           *)
(*                                                                         *)
(* total_used_, current_used_, idx_, addr_ and last_ are statistics or     *)
(* labels that no branch of the modelled methods reads; they are left out. *)
(***************************************************************************)
EXTENDS Integers, Sequences, FiniteSets, TLC

(* ---- bounds of the model ---- *)
NumConn == 3          \* connection objects that can exist at once
MaxTick == 1          \* seconds the clock advances past Epoch
MaxCap == 2           \* largest capacity (max_) given to the constructor
Epoch == 100          \* time(NULL) at construction: far from the 0 in last_check_

(* size_t arithmetic of count_; the width is reduced from 64 to 16 bits    *)
(* because TLC evaluates 32-bit integers.                                  *)
SizeMod == 65536

NULL == 0
NoThread == "none"
Threads == {"t1", "t2"}
Conns == 1..NumConn
Times == Epoch..(Epoch + MaxTick)
WhenVals == {0} \cup Times
SweepTtls == {-1, 0, 1, 2}

(* values the constructor gives retry_inter_, idle_ttl_ and check_inter_ *)
DefaultRetryInter == 1
DefaultIdleTtl == -1
DefaultCheckInter == 30

(* configurations <<max_, retry_inter_, idle_ttl_, check_inter_>> the pool  *)
(* is run with: an unbounded pool with the constructor's values, bounded   *)
(* pools with the retry interval varied and idle reaping off, and bounded  *)
(* pools with idle reaping varied and the default retry interval           *)
Bounded == 1..MaxCap
RetryInters == {0, 1, 2}
IdleTtls == {0, 1}
CheckInters == {1}
Configs ==
    ({0} \X {DefaultRetryInter} \X {DefaultIdleTtl} \X {DefaultCheckInter})
    \cup (Bounded \X RetryInters \X {DefaultIdleTtl} \X {DefaultCheckInter})
    \cup (Bounded \X {DefaultRetryInter} \X IdleTtls \X CheckInters)

VARIABLES
    clock,            \* time(NULL)
    alive_, delay_destroy_, last_dead_, max_, count_,
    idle_ttl_, last_check_, check_inter_, retry_inter_,
    pool_,            \* std::list<connect_client*>, front first
    lock_,            \* thread holding lock_, or NoThread
    when,             \* connect_client::when_ of every connection object
    live,             \* connection objects that exist (created, not deleted)
    pc, t_conn, t_now,           \* per thread: position and locals
    t_todo,           \* per thread: lock_ operations left on the path it is on
    out,              \* connections handed to callers and not yet taken back
    ret,              \* what peek returned in the step just taken, else NoResult
    destroyed,        \* number of times "delete this" ran
    crashed,          \* the process aborted (acl_assert, or a fault)
    deferred,         \* set_delay_destroy was called while a connection was checked out
    failT             \* time of the last failed open(), 0 once the pool was revived

cfg == <<max_, idle_ttl_, check_inter_, retry_inter_>>
locals == <<pc, t_conn, t_now, t_todo>>
vars == <<clock, alive_, delay_destroy_, last_dead_, count_, last_check_, pool_,
          lock_, when, live, out, ret, destroyed, crashed, deferred, failT,
          cfg, locals>>

Range(s) == {s[i] : i \in 1..Len(s)}
RemoveAt(s, i) == SubSeq(s, 1, i - 1) \o SubSeq(s, i + 1, Len(s))
Min(S) == CHOOSE x \in S : \A y \in S : x <= y

(* when_ of a connection that is deleted, or checked out, is not read      *)
(* again before set_when overwrites it (line 165); the model clears it     *)
ClearWhen(w, S) == [c \in Conns |-> IF c \in S THEN 0 ELSE w[c]]

(* connections some thread is in the middle of returning or opening *)
Pending == {t_conn[t] : t \in {u \in Threads : pc[u] \in {"put", "open"}}}
Referenced == live \cup out \cup Range(pool_) \cup Pending

(* what a step of peek shows to the outside: the value it returns (val),   *)
(* the branch that returned it (why; "opening" while the call is still in  *)
(* open()), and whether it logged "reset server" (line 94)                 *)
NoResult == [op |-> "none", val |-> NULL, why |-> "none", reset |-> FALSE]
PeekResult(v, w, r) == [op |-> "peek", val |-> v, why |-> w, reset |-> r]

(* the values of the three refusing returns of peek: lines 89, 114, 125 *)
DeadResult == NULL
FullResult == NULL
OpenFailResult == NULL

(* the connection appended instead of prepended *)
push_back(p, c) == Append(p, c)

(* the connection handed out and left in the list *)
keep_front(p) == p

(* lines 100-103: conn = *it; pool_.erase(it) with it = pool_.begin() *)
pop_front(p) == Tail(p)

(* line 169: pool_.push_front(conn) *)
push_front(p, c) == <<c>> \o p

Leave(t) ==
    /\ pc' = [pc EXCEPT ![t] = "idle"]
    /\ t_conn' = [t_conn EXCEPT ![t] = NULL]
    /\ t_now' = [t_now EXCEPT ![t] = 0]
    /\ UNCHANGED t_todo

(* connect_pool::connect_pool, followed by the set_idle_ttl /              *)
(* set_check_inter / set_retry_inter configuration calls                   *)
Init ==
    /\ clock = Epoch
    /\ alive_ = TRUE
    /\ delay_destroy_ = FALSE
    /\ last_dead_ = 0
    /\ \E c \in Configs :
        /\ max_ = c[1]
        /\ retry_inter_ = c[2]
        /\ idle_ttl_ = c[3]
        /\ check_inter_ = c[4]
    /\ count_ = 0
    /\ last_check_ = 0
    /\ pool_ = <<>>
    /\ lock_ = NoThread
    /\ when = [c \in Conns |-> 0]
    /\ live = {}
    /\ pc = [t \in Threads |-> "idle"]
    /\ t_conn = [t \in Threads |-> NULL]
    /\ t_now = [t \in Threads |-> 0]
    /\ t_todo = [t \in Threads |-> <<>>]
    /\ out = {}
    /\ ret = NoResult
    /\ destroyed = 0
    /\ crashed = FALSE
    /\ deferred = FALSE
    /\ failT = 0

(* time passes *)
Tick ==
    /\ ~crashed
    /\ ret' = NoResult
    /\ clock < Epoch + MaxTick
    /\ clock' = clock + 1
    /\ UNCHANGED <<alive_, delay_destroy_, last_dead_, count_, last_check_, pool_,
                   lock_, when, live, out, destroyed, crashed, deferred,
                   failT, cfg, locals>>

(* ---- peek ---- *)

(* the retry test one second short *)
BackoffOffByOne ==
    ~alive_ /\ (retry_inter_ <= 0 \/ clock - last_dead_ < retry_inter_ - 1)

(* a dead pool that is never probed again *)
BackoffNoRetry == ~alive_

(* lines 83-90: the pool is dead and the retry interval has not elapsed *)
Backoff ==
    ~alive_ /\ (retry_inter_ <= 0 \/ clock - last_dead_ < retry_inter_)

(* line 109 *)
AtCapacity == max_ > 0 /\ count_ >= max_

(* lines 82-118: lock, health check, idle reuse, capacity check,           *)
(* create_connect(); the thread then sits in open() holding lock_          *)
PeekEnter(t) ==
    /\ ~crashed
    /\ pc[t] = "idle"
    /\ destroyed = 0
    /\ lock_ = NoThread
    /\ IF Backoff
       THEN /\ ret' = PeekResult(DeadResult, "dead", FALSE)
            /\ UNCHANGED <<alive_, pool_, out, live, when, lock_, locals, failT>>
       ELSE /\ alive_' = TRUE
            /\ failT' = 0
            /\ IF pool_ # <<>>
               THEN /\ pool_' = pop_front(pool_)
                    /\ out' = out \cup {Head(pool_)}
                    /\ ret' = PeekResult(Head(pool_), "idle", ~alive_)
                    /\ when' = ClearWhen(when, {Head(pool_)})
                    /\ UNCHANGED <<live, lock_, locals>>
               ELSE IF AtCapacity
               THEN /\ ret' = PeekResult(FullResult, "full", ~alive_)
                    /\ UNCHANGED <<pool_, out, live, when, lock_, locals>>
               ELSE /\ Conns \ Referenced # {}
                    /\ LET c == Min(Conns \ Referenced) IN
                        /\ live' = live \cup {c}
                        /\ when' = [when EXCEPT ![c] = 0]
                        /\ t_conn' = [t_conn EXCEPT ![t] = c]
                    /\ pc' = [pc EXCEPT ![t] = "open"]
                    /\ lock_' = t
                    /\ UNCHANGED <<pool_, out, t_now, t_todo>>
                    /\ ret' = PeekResult(NULL, "opening", ~alive_)
    /\ UNCHANGED <<clock, delay_destroy_, last_dead_, count_, last_check_,
                   destroyed, crashed, deferred, cfg>>

(* a failed open() that is counted like a successful one *)
PeekOpenCounts(t, ok) ==
    /\ ~crashed
    /\ pc[t] = "open"
    /\ LET c == t_conn[t] IN
       IF ok
       THEN /\ count_' = (count_ + 1) % SizeMod
            /\ out' = out \cup {c}
            /\ ret' = PeekResult(c, "new", FALSE)
            /\ UNCHANGED <<alive_, last_dead_, live, failT>>
       ELSE /\ live' = live \ {c}
            /\ alive_' = FALSE
            /\ last_dead_' = clock
            /\ failT' = clock
            /\ ret' = PeekResult(OpenFailResult, "openfail", FALSE)
            /\ count_' = (count_ + 1) % SizeMod
            /\ UNCHANGED out
    /\ lock_' = NoThread
    /\ Leave(t)
    /\ UNCHANGED <<clock, delay_destroy_, last_check_, pool_, when, destroyed,
                   crashed, deferred, cfg>>

(* lines 119-137: open() returns, bookkeeping, unlock *)
PeekOpen(t, ok) ==
    /\ ~crashed
    /\ pc[t] = "open"
    /\ LET c == t_conn[t] IN
       IF ok
       THEN /\ count_' = (count_ + 1) % SizeMod
            /\ out' = out \cup {c}
            /\ ret' = PeekResult(c, "new", FALSE)
            /\ UNCHANGED <<alive_, last_dead_, live, failT>>
       ELSE /\ live' = live \ {c}
            /\ alive_' = FALSE
            /\ last_dead_' = clock
            /\ failT' = clock
            /\ ret' = PeekResult(OpenFailResult, "openfail", FALSE)
            /\ UNCHANGED <<count_, out>>
    /\ lock_' = NoThread
    /\ Leave(t)
    /\ UNCHANGED <<clock, delay_destroy_, last_check_, pool_, when, destroyed,
                   crashed, deferred, cfg>>

(* ---- check_idle ---- *)

(* lines 237-256: the loop walks from the back of the list; i is the       *)
(* position of rit, w the when_ value read from each connection            *)
RECURSIVE SweepFrom(_, _, _, _, _)
SweepFrom(p, i, w, ttl, now) ==
    IF i = 0 THEN [pool |-> p, del |-> <<>>]
    ELSE IF w[p[i]] <= 0 THEN SweepFrom(p, i - 1, w, ttl, now)
    ELSE IF now - w[p[i]] < ttl THEN [pool |-> p, del |-> <<>>]
    ELSE LET r == SweepFrom(RemoveAt(p, i), i - 1, w, ttl, now)
         IN  [pool |-> r.pool, del |-> <<p[i]>> \o r.del]

(* a sweep that does nothing for ttl = 0 as well *)
check_idle_skip_zero(p, cnt, w, ttl, now) ==
    IF ttl <= 0 \/ p = <<>>
    THEN [pool |-> p, count |-> cnt, del |-> <<>>, n |-> 0]
    ELSE LET r == SweepFrom(p, Len(p), w, ttl, now)
         IN  [pool |-> r.pool, count |-> (cnt - Len(r.del)) % SizeMod,
              del |-> r.del, n |-> Len(r.del)]

(* lines 202-261 without the locking: the list and counter it leaves, the  *)
(* connections it deletes (in order) and the number it returns             *)
check_idle(p, cnt, w, ttl, now) ==
    IF ttl < 0 \/ p = <<>>
    THEN [pool |-> p, count |-> cnt, del |-> <<>>, n |-> 0]
    ELSE IF ttl = 0
    THEN [pool |-> <<>>, count |-> 0, del |-> p, n |-> Len(p)]
    ELSE LET r == SweepFrom(p, Len(p), w, ttl, now)
         IN  [pool |-> r.pool, count |-> (cnt - Len(r.del)) % SizeMod,
              del |-> r.del, n |-> Len(r.del)]

(* the when_ values a sweep can read: the stored one for an object that    *)
(* exists, any value for a pointer to a deleted object                     *)
Observed(p, lv, wh) ==
    {[c \in Conns |-> IF c \in DOMAIN g THEN g[c] ELSE wh[c]] :
        g \in [Range(p) \ lv -> WhenVals]}

(* check_idle(ttl, true) called by a user of the pool *)
CheckIdle(t, ttl) ==
    /\ ~crashed
    /\ ret' = NoResult
    /\ pc[t] = "idle"
    /\ destroyed = 0
    /\ IF ttl < 0
       THEN UNCHANGED <<pool_, count_, live, when>>
       ELSE /\ lock_ = NoThread
            /\ \E w \in Observed(pool_, live, when) :
                LET r == check_idle(pool_, count_, w, ttl, clock) IN
                /\ pool_' = r.pool
                /\ count_' = r.count
                /\ live' = live \ Range(r.del)
                /\ when' = ClearWhen(when, Range(r.del))
    /\ UNCHANGED <<clock, alive_, delay_destroy_, last_dead_, last_check_, lock_,
                   out, destroyed, crashed, deferred, failT, cfg, locals>>

(* ---- put ---- *)

(* line 142: the caller hands back a connection it checked out; the clock  *)
(* is read before the lock is requested.  The argument keep is first read  *)
(* at line 163 and is supplied to that step.                               *)
PutCall(t, c) ==
    /\ ~crashed
    /\ ret' = NoResult
    /\ pc[t] = "idle"
    /\ c \in out /\ c \in live /\ c \notin Pending
    /\ pc' = [pc EXCEPT ![t] = "put"]
    /\ t_conn' = [t_conn EXCEPT ![t] = c]
    /\ t_now' = [t_now EXCEPT ![t] = clock]
    /\ UNCHANGED <<clock, alive_, delay_destroy_, last_dead_, count_, last_check_,
                   pool_, lock_, when, live, out, destroyed, crashed, deferred, failT,
                   cfg, t_todo>>

(* the same call made with a connection that is not checked out: one that  *)
(* was returned before and sits in the idle list                           *)
PutCallInvalid(t, c) ==
    /\ ~crashed
    /\ ret' = NoResult
    /\ pc[t] = "idle"
    /\ c \in live
    /\ c \in Range(pool_) /\ c \notin out /\ c \notin Pending
    \* bound: only while the list is still free of repeated and deleted entries
    /\ Cardinality(Range(pool_)) = Len(pool_)
    /\ Range(pool_) \subseteq live
    /\ pc' = [pc EXCEPT ![t] = "put"]
    /\ t_conn' = [t_conn EXCEPT ![t] = c]
    /\ t_now' = [t_now EXCEPT ![t] = clock]
    /\ UNCHANGED <<clock, alive_, delay_destroy_, last_dead_, count_, last_check_,
                   pool_, lock_, when, live, out, destroyed, crashed, deferred, failT,
                   cfg, t_todo>>

(* a connection is kept whenever the caller asks for it, dead pool or not *)
KeepIgnoresHealth(keep) == keep

(* line 163: the connection goes back to the idle list *)
KeepConn(keep) == keep /\ alive_

(* the sweep run by every put once idle reaping is on *)
SweepDueAlways(now) == idle_ttl_ >= 0

(* line 178: the put that read the time now runs the idle sweep *)
SweepDue(now) == idle_ttl_ >= 0 /\ now - last_check_ >= check_inter_

(* lines 144-184 *)
PutBody(t, keep) ==
    /\ ~crashed
    /\ ret' = NoResult
    /\ pc[t] = "put"
    /\ lock_ = NoThread
    /\ LET c == t_conn[t]
           now == t_now[t]
           discard == ~KeepConn(keep)
       IN
       IF delay_destroy_
       THEN LET n == (count_ - 1) % SizeMod IN
            /\ count_' = n
            /\ out' = out \ {c}
            /\ IF n <= 0
               THEN /\ destroyed' = IF destroyed < 2 THEN destroyed + 1 ELSE destroyed
                    /\ live' = live \ ({c} \cup Range(pool_))
                    /\ when' = ClearWhen(when, {c} \cup Range(pool_))
                    /\ pool_' = <<>>
               ELSE /\ live' = live \ {c}
                    /\ when' = ClearWhen(when, {c})
                    /\ UNCHANGED <<pool_, destroyed>>
            /\ Leave(t)
            /\ UNCHANGED <<last_check_, crashed>>
       ELSE IF discard /\ ~(count_ > 0)
       THEN /\ crashed' = TRUE
            /\ UNCHANGED <<count_, out, live, when, pool_, destroyed, last_check_,
                           locals>>
       ELSE LET p1 == IF discard THEN pool_ ELSE push_front(pool_, c)
                n1 == IF discard THEN (count_ - 1) % SizeMod ELSE count_
                w1 == IF discard THEN ClearWhen(when, {c})
                                 ELSE [when EXCEPT ![c] = now]
                l1 == IF discard THEN live \ {c} ELSE live
            IN
            /\ out' = out \ {c}
            /\ IF SweepDue(now)
               THEN /\ \E w \in Observed(p1, l1, w1) :
                        LET r == check_idle(p1, n1, w, idle_ttl_, clock) IN
                        /\ pool_' = r.pool
                        /\ count_' = r.count
                        /\ live' = l1 \ Range(r.del)
                        /\ when' = ClearWhen(w1, Range(r.del))
                    /\ last_check_' = clock
               ELSE /\ pool_' = p1
                    /\ count_' = n1
                    /\ live' = l1
                    /\ when' = w1
                    /\ UNCHANGED last_check_
            /\ Leave(t)
            /\ UNCHANGED <<destroyed, crashed>>
    /\ UNCHANGED <<clock, alive_, delay_destroy_, last_dead_, lock_, deferred,
                   failT, cfg>>

(* ---- set_delay_destroy, set_alive, aliving ---- *)

(* lines 186-191 *)
SetDelayDestroy(t) ==
    /\ ~crashed
    /\ ret' = NoResult
    /\ pc[t] = "idle"
    /\ destroyed = 0
    /\ lock_ = NoThread
    /\ delay_destroy_' = TRUE
    /\ deferred' = (out # {})
    /\ UNCHANGED <<clock, alive_, last_dead_, count_, last_check_, pool_, lock_,
                   when, live, out, destroyed, crashed, failT, cfg, locals>>

(* lines 193-200 *)
SetAlive(t, ok) ==
    /\ ~crashed
    /\ ret' = NoResult
    /\ pc[t] = "idle"
    /\ destroyed = 0
    /\ lock_ = NoThread
    /\ alive_' = ok
    /\ last_dead_' = IF ok THEN last_dead_ ELSE clock
    /\ failT' = IF ok THEN 0 ELSE failT
    /\ UNCHANGED <<clock, delay_destroy_, count_, last_check_, pool_, lock_, when,
                   live, out, destroyed, crashed, deferred, cfg, locals>>

(* lines 56-78.  now is read before the lock is requested, so it is any   *)
(* time up to the present; a call that finds alive_ set changes nothing    *)
aliving(t) ==
    /\ ~crashed
    /\ ret' = NoResult
    /\ pc[t] = "idle"
    /\ destroyed = 0
    /\ ~alive_
    /\ lock_ = NoThread
    /\ \E now \in Epoch..clock :
        /\ retry_inter_ > 0 /\ now - last_dead_ >= retry_inter_
        /\ alive_' = TRUE
    /\ UNCHANGED <<clock, delay_destroy_, last_dead_, count_, last_check_, pool_,
                   lock_, when, live, out, destroyed, crashed, deferred,
                   failT, cfg, locals>>

(* a put that reaches the pool after "delete this", or a method that       *)
(* follows a pointer to a deleted connection, may fault instead of running *)
(* on whatever the freed memory still holds                                *)
Segv(t) ==
    /\ ~crashed
    /\ ret' = NoResult
    /\ pc[t] # "open"
    /\ (destroyed > 0 /\ pc[t] = "put") \/ (Range(pool_) \cup Pending) \ live # {}
    /\ crashed' = TRUE
    /\ UNCHANGED <<clock, alive_, delay_destroy_, last_dead_, count_, last_check_,
                   pool_, lock_, when, live, out, destroyed, deferred, failT,
                   cfg, locals>>

Next ==
    \/ Tick
    \/ \E t \in Threads : PeekEnter(t)
    \/ \E t \in Threads, ok \in BOOLEAN : PeekOpen(t, ok)
    \/ \E t \in Threads, c \in Conns : PutCall(t, c)
    \/ \E t \in Threads, keep \in BOOLEAN : PutBody(t, keep)
    \/ \E t \in Threads, ttl \in SweepTtls : CheckIdle(t, ttl)
    \/ \E t \in Threads : SetDelayDestroy(t)
    \/ \E t \in Threads, ok \in BOOLEAN : SetAlive(t, ok)
    \/ \E t \in Threads : aliving(t)
    \/ \E t \in Threads : Segv(t)

Spec == Init /\ [][Next]_vars

(* checkouts and checkins by callers that may return a connection twice *)
NextMisuse ==
    \/ \E t \in Threads : PeekEnter(t)
    \/ \E t \in Threads, ok \in BOOLEAN : PeekOpen(t, ok)
    \/ \E t \in Threads, c \in Conns : PutCall(t, c)
    \/ \E t \in Threads, c \in Conns : PutCallInvalid(t, c)
    \/ \E t \in Threads, keep \in BOOLEAN : PutBody(t, keep)
    \/ \E t \in Threads : Segv(t)

(* the bounded pools with the constructor's retry interval and idle        *)
(* reaping off, for the runs with invalid checkins                         *)
InitMisuse ==
    /\ Init
    /\ max_ > 0
    /\ retry_inter_ = DefaultRetryInter
    /\ idle_ttl_ = DefaultIdleTtl

SpecMisuse == InitMisuse /\ [][NextMisuse]_vars

(* ---- the operations on lock_, path by path ---- *)

(* the sweep inside put taking the lock as a direct call does *)
PutSweepLocks == TRUE

(* line 180: put calls check_idle(idle_ttl_, false) *)
PutSweepExclusive == FALSE

(* lines 202-261: what check_idle does with lock_ on each of its return    *)
(* paths: ttl < 0 (line 205), empty list (207-212), ttl = 0 (207-228) and  *)
(* the loop (207-260); "sweep" stands for the work on the list             *)
CheckIdleOps(exclusive) ==
    { <<>>,
      IF exclusive THEN <<"lock", "unlock">> ELSE <<>>,
      IF exclusive THEN <<"lock", "sweep", "unlock">> ELSE <<"sweep">> }

(* lines 80-138: the returns at 89, 107 and 114, and the two after open() *)
(* at 125 and 137                                                          *)
PeekOps == { <<"lock", "unlock">>, <<"lock", "open", "unlock">> }

(* lines 140-184: the two returns of the delay_destroy_ branch (155, 159)  *)
(* and the normal return (183) without and with the sweep of line 180      *)
PutOps ==
    { <<"lock", "unlock">> }
    \cup { <<"lock">> \o q \o <<"unlock">> : q \in CheckIdleOps(PutSweepExclusive) }

(* lines 41-48, 186-191, 193-200 *)
SetterOps == { <<"lock", "unlock">> }

(* lines 56-78: the return at 61 before the lock, and those at 73 and 77 *)
AlivingOps == { <<>>, <<"lock", "unlock">> }

Methods == {"peek", "put", "check_idle", "set_retry_inter", "set_delay_destroy",
            "set_alive", "aliving"}

LockOps(m) ==
    CASE m = "peek" -> PeekOps
      [] m = "put" -> PutOps
      [] m = "check_idle" -> CheckIdleOps(TRUE)
      [] m = "aliving" -> AlivingOps
      [] OTHER -> SetterOps

(* what the thread does next on its path *)
NextOp(t) ==
    IF pc[t] = "idle" THEN "none"
    ELSE IF t_todo[t] = <<>> THEN "return"
    ELSE Head(t_todo[t])

LockUnchanged ==
    UNCHANGED <<clock, alive_, delay_destroy_, last_dead_, count_, last_check_,
                pool_, when, live, out, ret, destroyed, crashed, deferred, failT,
                cfg, t_conn, t_now>>

(* a thread calls method m and takes one of its paths *)
Call(t, m, ops) ==
    /\ pc[t] = "idle"
    /\ pc' = [pc EXCEPT ![t] = m]
    /\ t_todo' = [t_todo EXCEPT ![t] = ops]
    /\ UNCHANGED lock_
    /\ LockUnchanged

(* lock_.lock(): waits until no thread holds the lock *)
Acquire(t) ==
    /\ NextOp(t) = "lock"
    /\ lock_ = NoThread
    /\ lock_' = t
    /\ t_todo' = [t_todo EXCEPT ![t] = Tail(@)]
    /\ UNCHANGED pc
    /\ LockUnchanged

(* lock_.unlock() *)
Release(t) ==
    /\ NextOp(t) = "unlock"
    /\ lock_' = NoThread
    /\ t_todo' = [t_todo EXCEPT ![t] = Tail(@)]
    /\ UNCHANGED pc
    /\ LockUnchanged

(* open() or the work of the sweep, between the lock operations *)
Inside(t) ==
    /\ NextOp(t) \in {"open", "sweep"}
    /\ t_todo' = [t_todo EXCEPT ![t] = Tail(@)]
    /\ UNCHANGED <<pc, lock_>>
    /\ LockUnchanged

(* the method returns to its caller *)
Return(t) ==
    /\ NextOp(t) = "return"
    /\ pc' = [pc EXCEPT ![t] = "idle"]
    /\ UNCHANGED <<t_todo, lock_>>
    /\ LockUnchanged

NextLock ==
    \/ \E t \in Threads, m \in Methods : \E ops \in LockOps(m) : Call(t, m, ops)
    \/ \E t \in Threads : Acquire(t)
    \/ \E t \in Threads : Release(t)
    \/ \E t \in Threads : Inside(t)
    \/ \E t \in Threads : Return(t)

SpecLock == Init /\ [][NextLock]_vars

TypeOK ==
    /\ clock \in Times
    /\ count_ \in 0..(SizeMod - 1)
    /\ pool_ \in Seq(Conns)
    /\ live \subseteq Conns
    /\ out \subseteq Conns
    /\ lock_ \in Threads \cup {NoThread}

(* ---- properties ---- *)

(* some thread's peek ran in this step (it returned, or went into open()) *)
PeekStep(t) == pc[t] = "idle" /\ ret'.op = "peek" /\ ret'.why \notin {"new", "openfail"}

(* thread t's put ran its locked part in this step *)
PutStep(t) == pc[t] = "put" /\ pc'[t] = "idle"

(* C1: with capacity max_ > 0, the connections checked out plus the idle   *)
(* ones never exceed max_                                                  *)
CapacityInvariant ==
    max_ > 0 => Cardinality(out) + Len(pool_) <= max_

(* C2: a refusal for capacity is never the same value as a refusal for     *)
(* backoff or for a failed open                                            *)
RefusalsDistinguishable ==
    (ret.op = "peek" /\ ret.why = "full") => ret.val \notin {DeadResult, OpenFailResult}

(* C3: after open() failed at failT, a peek at a time clock with           *)
(* clock - failT < retry_inter_ returns the EndpointDead refusal, opens    *)
(* and hands out nothing, and leaves list, counter and health unchanged    *)
BackoffRefuses ==
    [][\A t \in Threads :
        (PeekStep(t) /\ failT > 0 /\ clock - failT < retry_inter_)
        => /\ ret' = PeekResult(DeadResult, "dead", FALSE)
           /\ pc'[t] = "idle"
           /\ UNCHANGED <<pool_, count_, alive_, last_dead_, live, out>>]_vars

BackoffRefusesWitness ==
    /\ ret = PeekResult(DeadResult, "dead", FALSE)
    /\ failT > 0
    /\ clock > failT
    /\ clock - failT < retry_inter_

(* C4 as stated: for every retry interval, a peek on a dead pool once      *)
(* clock - last_dead_ >= retry_inter_ sets the pool alive and is not       *)
(* refused as EndpointDead                                                 *)
RetryRevivesAnyInterval ==
    [][\A t \in Threads :
        (PeekStep(t) /\ ~alive_ /\ clock - last_dead_ >= retry_inter_)
        => (alive_' /\ ret'.why # "dead")]_vars

(* C4 amended: for every positive retry interval, such a peek sets the     *)
(* pool alive and goes on as a normal checkout: the front idle connection  *)
(* if there is one, else the capacity refusal or a new open()              *)
RetryRevives ==
    [][\A t \in Threads :
        (PeekStep(t) /\ ~alive_ /\ retry_inter_ > 0
                     /\ clock - last_dead_ >= retry_inter_)
        => /\ alive_'
           /\ ret'.reset
           /\ pool_ # <<>> => ret' = PeekResult(Head(pool_), "idle", TRUE)
           /\ (pool_ = <<>> /\ AtCapacity) => ret'.why = "full"
           /\ (pool_ = <<>> /\ ~AtCapacity) => ret'.why = "opening"]_vars

RetryRevivesWitness ==
    /\ ret.op = "peek" /\ ret.reset
    /\ retry_inter_ > 0
    /\ ret.why \in {"idle", "opening"}

(* C5: once delay_destroy_ is set no step hands a connection to a caller *)
NoCheckoutWhilePending ==
    [][delay_destroy_ => out' \subseteq out]_vars

(* C6: after set_delay_destroy with connections checked out, a checkin     *)
(* that leaves some connection checked out does not destroy the pool, and  *)
(* the checkin of the last one destroys it, once                           *)
LastCheckinDestroys ==
    [][\A t \in Threads :
        (PutStep(t) /\ delay_destroy_ /\ deferred /\ destroyed = 0)
        => /\ out' # {} => destroyed' = 0
           /\ out' = {} => destroyed' = 1]_vars

(* C7: set_delay_destroy on a pool with no connection checked out destroys *)
(* the pool in that call                                                   *)
DestroyWhenNothingOut ==
    [][(~delay_destroy_ /\ delay_destroy_' /\ out = {}) => destroyed' = destroyed + 1]_vars

(* C8: a thread inside open() does not hold lock_ *)
OpenOutsideLock ==
    \A t \in Threads : pc[t] = "open" => lock_ = NoThread

(* C9: a put of a connection that is not checked out changes nothing in    *)
(* the pool: list, counter and connection objects stay as they were        *)
InvalidCheckinRejected ==
    [][\A t \in Threads :
        (PutStep(t) /\ t_conn[t] \notin out)
        => UNCHANGED <<pool_, count_, live, when>>]_vars

(* position of c in the list p *)
Pos(p, c) == CHOOSE i \in 1..Len(p) : p[i] = c

(* C10: idle connections are reused last-in first-out: a put that keeps    *)
(* its connection leaves it at the front, no step reorders the list, and   *)
(* a peek on an alive pool with idle connections returns the front one,    *)
(* without open() and whatever count_ is                                   *)
LifoReuse ==
    [][\A t \in Threads :
        /\ (PutStep(t) /\ t_conn[t] \in Range(pool_'))
           => Head(pool_') = t_conn[t]
        /\ \A a, b \in Range(pool_) \cap Range(pool_') :
             Pos(pool_, a) < Pos(pool_, b) => Pos(pool_', a) < Pos(pool_', b)
        /\ (PeekStep(t) /\ alive_ /\ pool_ # <<>>)
           => /\ ret' = PeekResult(Head(pool_), "idle", FALSE)
              /\ pool_' = Tail(pool_)
              /\ out' = out \cup {Head(pool_)}
              /\ pc'[t] = "idle"
              /\ UNCHANGED <<live, count_, lock_>>]_vars

LifoReuseWitness ==
    /\ ret.op = "peek" /\ ret.why = "idle"
    /\ max_ > 0 /\ count_ = max_
    /\ pool_ # <<>>

(* seconds connection c has been idle: now - when_ *)
IdleFor(c) == clock - when[c]

(* the list p without the connections idle for ttl seconds or more *)
FreshOnly(p, ttl) ==
    LET Fresh(c) == IdleFor(c) < ttl IN SelectSeq(p, Fresh)

(* C11: a sweep check_idle(ttl, ...) with ttl > 0 run at time clock evicts *)
(* exactly the idle connections with clock - when_ >= ttl: what it leaves  *)
(* is the list of the connections idle for less than ttl, in their order   *)
SweepEvictsExactlyExpired ==
    \A ttl \in {x \in SweepTtls : x > 0} :
        (destroyed = 0 /\ Range(pool_) \subseteq live)
        => LET r == check_idle(pool_, count_, when, ttl, clock) IN
           /\ r.pool = FreshOnly(pool_, ttl)
           /\ Range(r.del) = {c \in Range(pool_) : IdleFor(c) >= ttl}

(* C12: check_idle(0, ...) deletes every idle connection, whatever its     *)
(* when_, and leaves the list empty; check_idle(ttl, ...) with ttl < 0     *)
(* changes nothing in the pool and returns 0                               *)
SweepZeroAndNegative ==
    [][\A t \in Threads :
        /\ (CheckIdle(t, 0) /\ Range(pool_) \subseteq live)
           => /\ pool_' = <<>>
              /\ live' = live \ Range(pool_)
              /\ check_idle(pool_, count_, when, 0, clock).n = Len(pool_)
        /\ \A ttl \in {x \in SweepTtls : x < 0} :
             CheckIdle(t, ttl)
             => /\ UNCHANGED <<pool_, count_, live, when, out, alive_, last_dead_,
                               last_check_, delay_destroy_, lock_, destroyed>>
                /\ check_idle(pool_, count_, when, ttl, clock).n = 0]_vars

(* a sweep with ttl = 0 has just emptied the list while a connection is    *)
(* checked out: only that sweep leaves count_ at 0 with one checked out    *)
SweepZeroAndNegativeWitness ==
    /\ destroyed = 0 /\ ~crashed /\ ~delay_destroy_
    /\ idle_ttl_ = DefaultIdleTtl
    /\ pool_ = <<>> /\ count_ = 0
    /\ out # {}

(* C13 as stated: a put on a pool that is not pending destruction leaves   *)
(* the connection at the front of the list, with when_ the time the call   *)
(* read, exactly when keep is set and the pool is alive; in every other    *)
(* case the connection is deleted and count_ goes down by exactly one      *)
CheckinKeepsOrDiscards ==
    [][\A t \in Threads, keep \in BOOLEAN :
        (PutBody(t, keep) /\ ~delay_destroy_)
        => LET c == t_conn[t] IN
           IF keep /\ alive_
           THEN /\ pool_' # <<>> /\ Head(pool_') = c
                /\ when'[c] = t_now[t]
                /\ c \in live'
           ELSE /\ c \notin Range(pool_') /\ c \notin live'
                /\ count_' = count_ - 1]_vars

(* C13 amended: that is the outcome of a put that does not run the idle    *)
(* sweep of line 178 (the discard aborting on acl_assert when count_ is    *)
(* already 0); a put that runs the sweep with idle_ttl_ = 0 deletes the    *)
(* connection it has just pushed, with the rest of the list                *)
CheckinKeepsOrDiscardsNoSweep ==
    [][\A t \in Threads, keep \in BOOLEAN :
        (PutBody(t, keep) /\ ~delay_destroy_)
        => LET c == t_conn[t] IN
           /\ (~SweepDue(t_now[t]) /\ keep /\ alive_)
              => /\ pool_' = <<c>> \o pool_
                 /\ when'[c] = t_now[t]
                 /\ count_' = count_ /\ live' = live /\ out' = out \ {c}
           /\ (~SweepDue(t_now[t]) /\ ~(keep /\ alive_) /\ count_ > 0)
              => /\ pool_' = pool_
                 /\ live' = live \ {c}
                 /\ count_' = count_ - 1 /\ out' = out \ {c}
           /\ (~(keep /\ alive_) /\ count_ = 0)
              => /\ crashed'
                 /\ UNCHANGED <<pool_, count_, live, out>>
           /\ (SweepDue(t_now[t]) /\ idle_ttl_ = 0 /\ keep /\ alive_)
              => /\ pool_' = <<>>
                 /\ c \notin live']_vars

(* a connection was kept by a put that ran no sweep, while the pool is     *)
(* dead: the next put discards                                             *)
CheckinKeepsOrDiscardsWitness ==
    /\ ~delay_destroy_ /\ destroyed = 0
    /\ idle_ttl_ < 0
    /\ pool_ # <<>> /\ when[Head(pool_)] = clock
    /\ ~alive_
    /\ \E t \in Threads : pc[t] = "put"

(* C14: a peek whose open() fails deletes the one connection it created    *)
(* and returns NULL without another attempt, marks the pool dead with      *)
(* last_dead_ the present time, and leaves count_ and the idle list as     *)
(* they were                                                               *)
OpenFailureMarksDead ==
    [][\A t \in Threads :
        PeekOpen(t, FALSE)
        => /\ ret' = PeekResult(NULL, "openfail", FALSE)
           /\ pc'[t] = "idle" /\ lock_' = NoThread
           /\ live' = live \ {t_conn[t]}
           /\ ~alive_' /\ last_dead_' = clock
           /\ UNCHANGED <<count_, pool_, out>>]_vars

OpenFailureMarksDeadWitness ==
    /\ ret.op = "peek" /\ ret.why = "openfail"
    /\ ~alive_ /\ last_dead_ = clock
    /\ clock > Epoch
    /\ count_ > 0 /\ out # {}

(* C15: a put on a pool that is not pending destruction runs the sweep     *)
(* check_idle(idle_ttl_, false) and sets last_check_ to the present time   *)
(* exactly when idle_ttl_ >= 0 and now - last_check_ >= check_inter_, now  *)
(* being the time the put read; any other put deletes no idle connection   *)
(* and leaves last_check_ alone.  No step other than a put or a call of    *)
(* check_idle deletes an idle connection, and with idle_ttl_ = -1 no put   *)
(* does                                                                    *)
SweepOnlyOnDueCheckin ==
    [][
      /\ \A t \in Threads, keep \in BOOLEAN :
            (PutBody(t, keep) /\ ~delay_destroy_ /\ ~crashed')
            => LET c == t_conn[t]
                   kept == keep /\ alive_
                   p1 == IF kept THEN <<c>> \o pool_ ELSE pool_
                   w1 == IF kept THEN [when EXCEPT ![c] = t_now[t]] ELSE when
               IN
               IF idle_ttl_ >= 0 /\ t_now[t] - last_check_ >= check_inter_
               THEN /\ last_check_' = clock
                    /\ Range(p1) \subseteq live
                       => pool_' = check_idle(p1, count_, w1, idle_ttl_, clock).pool
               ELSE /\ last_check_' = last_check_
                    /\ Range(pool_) \subseteq Range(pool_')
                    /\ live \ live' \subseteq {c}
      /\ (Range(pool_) \cap (live \ live') # {})
            => \E t \in Threads :
                \/ \E keep \in BOOLEAN : PutBody(t, keep)
                \/ \E ttl \in SweepTtls : CheckIdle(t, ttl)
      /\ (idle_ttl_ = -1 /\ ~delay_destroy_)
            => \A t \in Threads, keep \in BOOLEAN :
                PutBody(t, keep) => Range(pool_) \subseteq Range(pool_')]_vars

(* a put ran the sweep a second time, the interval having elapsed, and     *)
(* the sweep has left a connection in the list                             *)
SweepOnlyOnDueCheckinWitness ==
    /\ ~delay_destroy_ /\ destroyed = 0 /\ ~crashed
    /\ idle_ttl_ > 0
    /\ last_check_ = clock /\ clock > Epoch
    /\ pool_ # <<>>
    /\ \E c \in Range(pool_) : when[c] = Epoch

(* C16: the idle list is time-ordered in every reachable state: when_ does *)
(* not increase from the front of the list to the back                     *)
IdleListTimeOrdered ==
    (destroyed = 0 /\ Range(pool_) \subseteq live)
    => \A i, j \in 1..Len(pool_) : i < j => when[pool_[i]] >= when[pool_[j]]

(* C17: once the pool has deleted itself no thread is inside one of its    *)
(* methods or on its way into one, and no connection is still checked out  *)
(* of it                                                                   *)
NoUseAfterDestroy ==
    destroyed > 0 => (out = {} /\ \A t \in Threads : pc[t] = "idle")

(* C18: with every checked-out connection returned at most once, count_ is *)
(* the number of idle connections plus the number checked out, in every    *)
(* reachable state of a pool that exists                                   *)
CountIsIdlePlusOut ==
    destroyed = 0 => count_ = Len(pool_) + Cardinality(out)

(* C19: with every checked-out connection returned at most once, no        *)
(* connection is in the idle list and checked out at once or twice in the  *)
(* list, peek never returns a connection that is already checked out, and  *)
(* a step deletes only connections that were idle or the one the stepping  *)
(* thread is returning (or failed to open), never one that stays checked   *)
(* out                                                                     *)
ExclusiveOwnership ==
    [][/\ Range(pool_') \cap out' = {}
       /\ Cardinality(Range(pool_')) = Len(pool_')
       /\ (ret'.op = "peek" /\ ret'.why \in {"idle", "new"})
            => (ret'.val \in out' /\ ret'.val \notin out)
       /\ \A c \in live \ live' :
            /\ c \notin out'
            /\ \/ c \in Range(pool_)
               \/ \E t \in Threads :
                    pc[t] \in {"put", "open"} /\ t_conn[t] = c /\ pc'[t] = "idle"
      ]_vars

(* an idle connection has just been handed out again while another is      *)
(* checked out and a third is idle                                         *)
ExclusiveOwnershipWitness ==
    /\ ret.op = "peek" /\ ret.why = "idle"
    /\ ret.val \in out /\ Cardinality(out) >= 2
    /\ pool_ # <<>>

(* C20: every method releases lock_ on every return path and never asks    *)
(* for it while holding it: a thread that returns, or is outside the pool, *)
(* does not hold the lock; a thread about to lock does not hold it; a      *)
(* thread about to unlock does; and while some thread is inside a method   *)
(* some thread can take its next step                                      *)
LockDiscipline ==
    /\ \A t \in Threads :
        /\ NextOp(t) \in {"none", "return", "lock"} => lock_ # t
        /\ NextOp(t) \in {"unlock", "open", "sweep"} => lock_ = t
    /\ (\E t \in Threads : pc[t] # "idle")
        => \E t \in Threads :
            \/ NextOp(t) \in {"return", "unlock", "open", "sweep"}
            \/ NextOp(t) = "lock" /\ lock_ = NoThread

(* a thread is in the sweep inside put, holding the lock, while the other  *)
(* waits for the lock in check_idle                                        *)
LockDisciplineWitness ==
    \E t, u \in Threads :
        /\ pc[t] = "put" /\ NextOp(t) = "sweep" /\ lock_ = t
        /\ pc[u] = "check_idle" /\ NextOp(u) = "lock"

====
